---- MODULE Spec2Model ----
(***************************************************************************)
(* News Research Tool (Streamlit application).                             *)
(*                                                                         *)
(* Python values are modelled as follows:                                  *)
(*   str   Str(p), p a sequence of text pieces; "" is Str(<<>>), + joins   *)
(*         the pieces.  A string that the code slices, measures or scans   *)
(*         (publishedAt, the API keys) is written one character per piece, *)
(*         so that s[:n] keeps the first n pieces and len(s) counts them.  *)
(*   None  the record PyNone.                                              *)
(*   dict  a record from keys to values; a key is present iff it is in the *)
(*         DOMAIN; {} is EmptyDict, whose only field is the reserved py.   *)
(*   list  a sequence.                                                     *)
(*   int   an integer.                                                     *)
(* A call that may raise returns [raised, exc, value].                     *)
(***************************************************************************)
EXTENDS Integers, Sequences, FiniteSets, TLC

(* ------------------------------ bounds --------------------------------- *)
\* longest article list handed to a function in the function checks
MaxArticles == 3
\* research requests stored per session
MaxHistory == 2

(* --------------------------- Python helpers ---------------------------- *)
PyNone == [py |-> "None"]
EmptyDict == [py |-> "dict"]
Str(pieces) == [s |-> pieces]
EmptyStr == Str(<< >>)

\* dict.get(key, default)
Get(d, key, default) == IF key \in DOMAIN d THEN d[key] ELSE default

\* mutant: only None counts as missing
Truthy_NoneOnly(v) == v # PyNone

\* truth value of a str / dict / None
Truthy(v) == v # PyNone /\ v # EmptyStr /\ v # EmptyDict

Return(v) == [raised |-> FALSE, exc |-> "", value |-> v]
Raise(e) == [raised |-> TRUE, exc |-> e, value |-> PyNone]

Min2(a, b) == IF a <= b THEN a ELSE b

\* l[:n] of a list
Slice(l, n) == SubSeq(l, 1, Min2(n, Len(l)))

\* s[:n] of a str
StrSlice(v, n) == Str(Slice(v.s, n))

\* s.replace(old, new) for a one-character old
Replace(v, old, new) == Str([i \in 1..Len(v.s) |-> IF v.s[i] = old THEN new ELSE v.s[i]])

\* a + b + ... for a list of str
RECURSIVE Join(_)
Join(l) == IF Len(l) = 0 THEN EmptyStr ELSE Str(Head(l).s \o Join(Tail(l)).s)

Digit == <<"0", "1", "2", "3", "4", "5", "6", "7", "8", "9">>
IsDigit(c) == \E k \in 1..10 : Digit[k] = c
DigitVal(c) == (CHOOSE k \in 1..10 : Digit[k] = c) - 1

\* str(n) for a non-negative int below 1000
IntStr(n) ==
    IF n < 10 THEN Str(<<Digit[n + 1]>>)
    ELSE IF n < 100 THEN Str(<<Digit[(n \div 10) + 1], Digit[(n % 10) + 1]>>)
    ELSE Str(<<Digit[(n \div 100) + 1], Digit[((n \div 10) % 10) + 1], Digit[(n % 10) + 1]>>)

\* code points of the characters that occur at the start of publishedAt
Ord(c) ==
    CASE c = "-" -> 45
      [] c = "/" -> 47
      [] IsDigit(c) -> 48 + DigitVal(c)
      [] c = "a" -> 97
      [] c = "n" -> 110
      [] OTHER -> 255

\* s < t for the characters of two str (lexicographic by code point)
RECURSIVE CharsLess(_, _)
CharsLess(s, t) ==
    IF t = << >> THEN FALSE
    ELSE IF s = << >> THEN TRUE
    ELSE IF Ord(Head(s)) # Ord(Head(t)) THEN Ord(Head(s)) < Ord(Head(t))
    ELSE CharsLess(Tail(s), Tail(t))

StrLess(a, b) == CharsLess(a.s, b.s)

\* mutant: the first date instead of the smallest
PyMin_First(l) == l[1]

\* min(list) / max(list) of a non-empty list of str; the first of equals
RECURSIVE PyMin(_)
PyMin(l) ==
    IF Len(l) = 1 THEN l[1]
    ELSE LET m == PyMin(SubSeq(l, 1, Len(l) - 1))
         IN  IF StrLess(l[Len(l)], m) THEN l[Len(l)] ELSE m

RECURSIVE PyMax(_)
PyMax(l) ==
    IF Len(l) = 1 THEN l[1]
    ELSE LET m == PyMax(SubSeq(l, 1, Len(l) - 1))
         IN  IF StrLess(m, l[Len(l)]) THEN l[Len(l)] ELSE m

(* ------------------- datetime.strptime(s, '%Y-%m-%d') ------------------- *)
IsLeap(y) == (y % 4 = 0) /\ ((y % 100 # 0) \/ (y % 400 = 0))

DaysInMonth(y, m) ==
    IF m = 2 THEN (IF IsLeap(y) THEN 29 ELSE 28)
    ELSE IF m \in {4, 6, 9, 11} THEN 30 ELSE 31

RECURSIVE DaysBeforeMonth(_, _)
DaysBeforeMonth(y, m) == IF m = 1 THEN 0 ELSE DaysBeforeMonth(y, m - 1) + DaysInMonth(y, m - 1)

\* date.toordinal(): the day number, 0001-01-01 being day 1
Ordinal(y, m, d) ==
    LET p == y - 1
    IN  p * 365 + (p \div 4) - (p \div 100) + (p \div 400) + DaysBeforeMonth(y, m) + d

YearOf(c) == DigitVal(c[1]) * 1000 + DigitVal(c[2]) * 100 + DigitVal(c[3]) * 10 + DigitVal(c[4])
MonthOf(c) == DigitVal(c[6]) * 10 + DigitVal(c[7])
DayOf(c) == DigitVal(c[9]) * 10 + DigitVal(c[10])

\* the texts handed to strptime are zero-padded YYYY-MM-DD or no date at all
WellFormedDate(c) ==
    /\ Len(c) = 10
    /\ c[5] = "-" /\ c[8] = "-"
    /\ \A i \in {1, 2, 3, 4, 6, 7, 9, 10} : IsDigit(c[i])
    /\ YearOf(c) >= 1 /\ MonthOf(c) \in 1..12 /\ DayOf(c) \in 1..DaysInMonth(YearOf(c), MonthOf(c))

\* the day number of the parsed date; ValueError when the text is not a date
Strptime(v) ==
    IF ~WellFormedDate(v.s) THEN Raise("ValueError")
    ELSE Return(Ordinal(YearOf(v.s), MonthOf(v.s), DayOf(v.s)))

(* ------------------------- NewsProcessor -------------------------------- *)
\* str(v) inside an f-string
PyStr(v) == IF v = PyNone THEN Str(<<"None">>) ELSE v

\* article.get('source', {}).get('name', default); None has no .get
SourceName(article, default) ==
    LET source == Get(article, "source", EmptyDict)
    IN  IF source = PyNone THEN Raise("AttributeError")
        ELSE Return(Get(source, "name", default))

\* value[:n] where value may be None
SliceOf(value, n) == IF value = PyNone THEN Raise("TypeError") ELSE Return(StrSlice(value, n))

\* the loop of validate_articles from article i on
RECURSIVE ValidateFrom(_, _, _, _)
ValidateFrom(articles, i, valid_list, warnings) ==
    IF i > Len(articles) THEN Return(<<valid_list, warnings>>)
    ELSE LET article == articles[i]
         IN  IF ~Truthy(Get(article, "title", PyNone)) /\ ~Truthy(Get(article, "description", PyNone))
             THEN ValidateFrom(articles, i + 1, valid_list,
                      Append(warnings, Join(<<Str(<<"Article ">>), IntStr(i),
                                              Str(<<": Missing title and description">>)>>)))
             ELSE LET name == SourceName(article, PyNone)
                  IN  IF name.raised THEN name
                      ELSE ValidateFrom(articles, i + 1, Append(valid_list, article),
                               IF ~Truthy(name.value)
                               THEN Append(warnings, Join(<<Str(<<"Article ">>), IntStr(i),
                                                            Str(<<": Unknown source">>)>>))
                               ELSE warnings)

\* NewsProcessor.validate_articles: (valid_articles, warnings)
validate_articles(articles) == ValidateFrom(articles, 1, << >>, << >>)

\* list(set(values)): the distinct values in an order the code does not fix
RECURSIVE SetToList(_)
SetToList(S) ==
    IF S = {} THEN << >>
    ELSE LET x == CHOOSE y \in S : TRUE IN <<x>> \o SetToList(S \ {x})

\* mutant: the count is set to 1 instead of incremented
RECURSIVE TallyFrom_SetOne(_, _, _)
TallyFrom_SetOne(sources, i, source_counts) ==
    IF i > Len(sources) THEN source_counts
    ELSE LET source == sources[i]
         IN  TallyFrom_SetOne(sources, i + 1,
                 [s \in (DOMAIN source_counts) \cup {source} |->
                     IF s = source THEN 1 ELSE source_counts[s]])

\* the tally loop: source_counts[source] = source_counts.get(source, 0) + 1;
\* source_counts is keyed by source values, so it is a function on them
RECURSIVE TallyFrom(_, _, _)
TallyFrom(sources, i, source_counts) ==
    IF i > Len(sources) THEN source_counts
    ELSE LET source == sources[i]
         IN  TallyFrom(sources, i + 1,
                 [s \in (DOMAIN source_counts) \cup {source} |->
                     IF s = source
                     THEN (IF source \in DOMAIN source_counts THEN source_counts[source] ELSE 0) + 1
                     ELSE source_counts[s]])

\* NewsProcessor.extract_article_metadata
extract_article_metadata(articles) ==
    IF Len(articles) = 0 THEN Return(EmptyDict)
    ELSE LET names == [i \in 1..Len(articles) |-> SourceName(articles[i], Str(<<"Unknown">>))]
         IN  IF \E i \in 1..Len(articles) : names[i].raised THEN Raise("AttributeError")
             ELSE
             LET sources == [i \in 1..Len(articles) |-> names[i].value]
                 source_set == {sources[i] : i \in 1..Len(sources)}
                 source_counts == TallyFrom(sources, 1, [s \in {} |-> 0])
                 dated == SelectSeq(articles, LAMBDA a : Truthy(Get(a, "publishedAt", PyNone)))
                 dates == [i \in 1..Len(dated) |-> StrSlice(Get(dated[i], "publishedAt", EmptyStr), 10)]
                 hi == IF Len(dates) = 0 THEN Return(0) ELSE Strptime(PyMax(dates))
                 lo == IF Len(dates) = 0 THEN Return(0) ELSE Strptime(PyMin(dates))
             IN  IF hi.raised \/ lo.raised THEN Raise("ValueError")
                 ELSE Return([total_articles |-> Len(articles),
                              unique_sources |-> Cardinality(source_set),
                              source_distribution |-> source_counts,
                              date_range |-> IF Len(dates) = 0 THEN EmptyDict
                                             ELSE [earliest |-> PyMin(dates),
                                                   latest |-> PyMax(dates),
                                                   span_days |-> hi.value - lo.value],
                              sources_list |-> SetToList(source_set)])

UnknownDate == Str(<<"U", "n", "k", "n", "o", "w", "n", " ", "d", "a", "t", "e">>)

\* NewsProcessor.format_article_for_display
format_article_for_display(article, index) ==
    LET name == SourceName(article, Str(<<"Unknown Source">>))
        published == SliceOf(Get(article, "publishedAt", UnknownDate), 19)
    IN  IF name.raised THEN name
        ELSE IF published.raised THEN published
        ELSE Return([index |-> index,
                     title |-> Get(article, "title", Str(<<"No title available">>)),
                     description |-> Get(article, "description", Str(<<"No description available">>)),
                     source |-> name.value,
                     published_at |-> Replace(published.value, "T", " "),
                     url |-> Get(article, "url", EmptyStr),
                     url_to_image |-> Get(article, "urlToImage", EmptyStr),
                     author |-> Get(article, "author", Str(<<"Unknown author">>))])

\* one pass of the loop of prepare_content_for_analysis, for the article numbered n
ContentBlock(article, n) ==
    LET name == SourceName(article, Str(<<"Unknown source">>))
        published == SliceOf(Get(article, "publishedAt", UnknownDate), 10)
    IN  IF name.raised THEN name
        ELSE IF published.raised THEN published
        ELSE Return(Join(<<Str(<<"Article ">>), IntStr(n), Str(<<": Title: ">>),
                           PyStr(Get(article, "title", Str(<<"No title">>))),
                           Str(<<" Description: ">>),
                           PyStr(Get(article, "description", Str(<<"No description">>))),
                           Str(<<" Source: ">>), PyStr(name.value),
                           Str(<<" Published: ">>), published.value,
                           Str(<<" --- ">>)>>))

RECURSIVE PrepareFrom(_, _, _)
PrepareFrom(articles, i, news_content) ==
    IF i > Len(articles) THEN Return(news_content)
    ELSE LET block == ContentBlock(articles[i], i)
         IN  IF block.raised THEN block
             ELSE PrepareFrom(articles, i + 1, Join(<<news_content, block.value>>))

\* NewsProcessor.prepare_content_for_analysis
prepare_content_for_analysis(articles, max_articles) ==
    PrepareFrom(Slice(articles, max_articles), 1, EmptyStr)

\* mutant: every valid article is sent
AnalysisContent_NoLimit(valid_list) ==
    prepare_content_for_analysis(valid_list, Len(valid_list))

\* process_research_request, step 3: the text prepared for the analysis
AnalysisContent(valid_list) ==
    prepare_content_for_analysis(valid_list, Min2(10, Len(valid_list)))

(* ----------------------------- HTTP clients ----------------------------- *)
\* What requests.get / requests.post can do: answer with a status, a text
\* and a body that response.json() parses or rejects, or raise.
HttpResponse(status, text, json) == [kind |-> "response", status_code |-> status, text |-> text, json |-> json]
HttpRaises(e) == [kind |-> e]

\* response.json() of a body that is not JSON: requests.JSONDecodeError is a
\* RequestException in current releases and a plain ValueError in older ones
NotJson == {Raise("RequestException"), Raise("ValueError")}

\* the query parameters of fetch_articles; from is kept as the number of days before now
SearchParams(api_key, query, days_back, page_size) ==
    [q |-> query, apiKey |-> api_key, language |-> Str(<<"en">>), sortBy |-> Str(<<"relevancy">>),
     pageSize |-> Min2(IF page_size = 0 THEN 15 ELSE page_size, 100),
     from_days_ago |-> IF days_back = 0 THEN 7 ELSE days_back]

\* mutant: the request is sent again when it does not answer with 200
SearchRequests_Retry(params, net) ==
    LET request == [method |-> "GET", url |-> Str(<<"https://newsapi.org/v2/everything">>), params |-> params]
    IN  IF net.kind = "response" /\ net.status_code = 200 THEN <<request>> ELSE <<request, request>>

\* the requests fetch_articles issues: requests.get is called once
SearchRequests(params, net) ==
    <<[method |-> "GET", url |-> Str(<<"https://newsapi.org/v2/everything">>), params |-> params]>>

\* NewsAPIClient.fetch_articles; sent is the list of requests issued
fetch_articles(api_key, query, days_back, page_size, net) ==
    LET sent == SearchRequests(SearchParams(api_key, query, days_back, page_size), net)
    IN  [sent |-> sent,
         result |->
            IF net.kind = "response"
            THEN IF net.status_code = 200
                 THEN IF ~net.json.raised THEN Return(net.json.value)
                      ELSE IF net.json.exc = "RequestException"
                           THEN Return([error |-> Str(<<"Network issue: ", net.json.exc>>)])
                           ELSE Return([error |-> Str(<<"Error fetching news: ", net.json.exc>>)])
                 ELSE Return([error |-> Join(<<Str(<<"NewsAPI Error: ">>), IntStr(net.status_code),
                                               Str(<<" - ">>), net.text>>)])
            ELSE IF net.kind = "Timeout"
                 THEN Return([error |-> Str(<<"Request timed out. Please try again.">>)])
            ELSE IF net.kind = "RequestException"
                 THEN Return([error |-> Str(<<"Network issue: ", net.kind>>)])
            ELSE Return([error |-> Str(<<"Error fetching news: ", net.kind>>)])]

\* mutant: missing parts of the response read as None instead of raising
CompletionText_Lenient(result) ==
    IF "choices" \notin DOMAIN result THEN Return(PyNone)
    ELSE IF Len(result.choices) = 0 THEN Return(PyNone)
    ELSE IF "message" \notin DOMAIN result.choices[1] THEN Return(PyNone)
    ELSE IF "content" \notin DOMAIN result.choices[1].message THEN Return(PyNone)
    ELSE Return(result.choices[1].message.content)

\* result['choices'][0]['message']['content']
CompletionText(result) ==
    IF "choices" \notin DOMAIN result THEN Raise("KeyError")
    ELSE IF Len(result.choices) = 0 THEN Raise("IndexError")
    ELSE IF "message" \notin DOMAIN result.choices[1] THEN Raise("KeyError")
    ELSE IF "content" \notin DOMAIN result.choices[1].message THEN Raise("KeyError")
    ELSE Return(result.choices[1].message.content)

\* ANALYSIS_PROMPT_TEMPLATE.format(query=query, news_content=news_content)
AnalysisPrompt(query, news_content) ==
    Join(<<Str(<<"As an expert equity research analyst ... related to: \"">>), query,
           Str(<<"\" News Content: ">>), news_content,
           Str(<<" Please provide a comprehensive analysis ...">>)>>)

\* the body generate_summary posts
CompletionData(query, news_content, model) ==
    [model |-> IF model = EmptyStr THEN Str(<<"openai/gpt-oss-120b">>) ELSE model,
     messages |-> <<[role |-> "user", content |-> AnalysisPrompt(query, news_content)]>>]

\* mutant: the request is sent again after a timeout
CompletionRequests_Retry(api_key, data, net) ==
    LET request == [method |-> "POST", url |-> Str(<<"https://api.groq.com/openai/v1/chat/completions">>),
                    authorization |-> Join(<<Str(<<"Bearer ">>), api_key>>), json |-> data]
    IN  IF net.kind = "Timeout" THEN <<request, request>> ELSE <<request>>

\* the requests generate_summary issues: requests.post is called once
CompletionRequests(api_key, data, net) ==
    <<[method |-> "POST", url |-> Str(<<"https://api.groq.com/openai/v1/chat/completions">>),
       authorization |-> Join(<<Str(<<"Bearer ">>), api_key>>), json |-> data]>>

\* mutant: a timeout of the request is not caught
generate_summary_TimeoutRaises(api_key, query, news_content, model, net) ==
    LET sent == CompletionRequests(api_key, CompletionData(query, news_content, model), net)
    IN  [sent |-> sent,
         result |->
            IF net.kind = "response"
            THEN IF net.status_code = 200
                 THEN IF net.json.raised
                      THEN IF net.json.exc = "RequestException"
                           THEN Return(Str(<<"Error", ": Network issue - ", net.json.exc>>))
                           ELSE Return(Str(<<"Error", " generating summary: ", net.json.exc>>))
                      ELSE LET content == CompletionText(net.json.value)
                           IN  IF content.raised
                               THEN Return(Str(<<"Error", " generating summary: ", content.exc>>))
                               ELSE content
                 ELSE Return(Join(<<Str(<<"Error", ": ">>), IntStr(net.status_code), Str(<<" - ">>), net.text>>))
            ELSE IF net.kind = "Timeout"
                 THEN Raise("Timeout")
            ELSE IF net.kind = "RequestException"
                 THEN Return(Str(<<"Error", ": Network issue - ", net.kind>>))
            ELSE Return(Str(<<"Error", " generating summary: ", net.kind>>))]

\* GroqAnalyzer.generate_summary; sent is the list of requests issued
generate_summary(api_key, query, news_content, model, net) ==
    LET sent == CompletionRequests(api_key, CompletionData(query, news_content, model), net)
    IN  [sent |-> sent,
         result |->
            IF net.kind = "response"
            THEN IF net.status_code = 200
                 THEN IF net.json.raised
                      THEN IF net.json.exc = "RequestException"
                           THEN Return(Str(<<"Error", ": Network issue - ", net.json.exc>>))
                           ELSE Return(Str(<<"Error", " generating summary: ", net.json.exc>>))
                      ELSE LET content == CompletionText(net.json.value)
                           IN  IF content.raised
                               THEN Return(Str(<<"Error", " generating summary: ", content.exc>>))
                               ELSE content
                 ELSE Return(Join(<<Str(<<"Error", ": ">>), IntStr(net.status_code), Str(<<" - ">>), net.text>>))
            ELSE IF net.kind = "Timeout"
                 THEN Return(Str(<<"Error", ": Request timed out. Please try again.">>))
            ELSE IF net.kind = "RequestException"
                 THEN Return(Str(<<"Error", ": Network issue - ", net.kind>>))
            ELSE Return(Str(<<"Error", " generating summary: ", net.kind>>))]

(* --------------------------- export builders --------------------------- *)
\* The text of the html_content literal of create_pdf_content, cut at its
\* brace expressions.  The literal has no f prefix: every brace expression
\* is part of the text.
HtmlTemplate ==
    Str(<<"<!DOCTYPE html> <html> <head> <title>Market Research Report: ",
      "{query}",
      "</title> <style> ... </style> </head> <body> <div class=\"header\"> <h1>Market Research Report</h1> <h2>Query: \"",
      "{query}",
      "\"</h2> <p>Generated: ",
      "{timestamp}",
      "</p> </div> <div class=\"content\"> <h2>AI Analysis Summary</h2> <div>",
      "{summary.replace('\n', '<br>')}",
      "</div> <div class=\"metrics\"> <div class=\"metric\"> <h3>",
      "{metadata.get('total_articles', 'N/A')}",
      "</h3> <p>Articles</p> </div> <div class=\"metric\"> <h3>",
      "{metadata.get('unique_sources', 'N/A')}",
      "</h3> <p>Sources</p> </div> <div class=\"metric\"> <h3>",
      "{metadata.get('date_range', {}).get('span_days', 'N/A')}",
      " days</h3> <p>Time Span</p> </div> </div> <h2>Key Articles</h2> ",
      "{''.join([f'''",
      "<div class=\"article\">",
      "<h3>{article.get('title', 'No Title')}</h3> ... </div> ''' for article in articles])}",
      "</div> <div class=\"footer\"> ... </div> </body> </html>">>)

\* create_pdf_content
create_pdf_content(summary, query, metadata, articles) == HtmlTemplate

(* ------------------- process_research_request, steps ------------------- *)
\* mutant: enumerate(valid_articles, 1)
RECURSIVE FormatFrom_OneBased(_, _, _)
FormatFrom_OneBased(valid_list, i, formatted) ==
    IF i > Len(valid_list) THEN Return(formatted)
    ELSE LET record == format_article_for_display(valid_list[i], i)
         IN  IF record.raised THEN record
             ELSE FormatFrom_OneBased(valid_list, i + 1, Append(formatted, record.value))

\* [format_article_for_display(article, i) for i, article in enumerate(valid_articles)]
RECURSIVE FormatFrom(_, _, _)
FormatFrom(valid_list, i, formatted) ==
    IF i > Len(valid_list) THEN Return(formatted)
    ELSE LET record == format_article_for_display(valid_list[i], i - 1)
         IN  IF record.raised THEN record
             ELSE FormatFrom(valid_list, i + 1, Append(formatted, record.value))

formatted_articles(valid_list) == FormatFrom(valid_list, 1, << >>)

(* ------------------------------ CSV export ----------------------------- *)
\* s.replace(old, '') for a one-character old
Remove(v, old) == Str(SelectSeq(v.s, LAMBDA c : c # old))

\* value.replace('\n', ' ').replace('\r', ''); None has no .replace
OneLine(v) ==
    IF v = PyNone THEN Raise("AttributeError")
    ELSE Return(Remove(Replace(v, "\n", " "), "\r"))

\* The characters csv.writer quotes a field for.  A text that holds one of
\* them is written with that character as a piece of its own.
CsvSpecial == {",", "\"", "\n", "\r"}

RECURSIVE DoubleQuotes(_)
DoubleQuotes(p) ==
    IF p = << >> THEN << >>
    ELSE (IF Head(p) = "\"" THEN <<"\"", "\"">> ELSE <<Head(p)>>) \o DoubleQuotes(Tail(p))

\* one field as csv.writer (excel dialect, QUOTE_MINIMAL) writes it: None is
\* the empty field, a field with a special character is quoted
CsvField(v) ==
    IF v = PyNone THEN << >>
    ELSE IF \E i \in 1..Len(v.s) : v.s[i] \in CsvSpecial
         THEN <<"\"">> \o DoubleQuotes(v.s) \o <<"\"">>
         ELSE v.s

RECURSIVE CsvFields(_)
CsvFields(row) ==
    IF Len(row) = 0 THEN << >>
    ELSE IF Len(row) = 1 THEN CsvField(row[1])
    ELSE CsvField(row[1]) \o <<",">> \o CsvFields(Tail(row))

\* writer.writerow(row): the fields, comma separated, and the line terminator
writerow(row) == CsvFields(row) \o <<"\r\n">>

\* mutant: enumerate(articles) numbers the rows from 0
RECURSIVE CsvArticleRows_ZeroBased(_, _, _)
CsvArticleRows_ZeroBased(articles, i, output) ==
    IF i > Len(articles) THEN Return(output)
    ELSE LET article == articles[i]
             title == OneLine(Get(article, "title", EmptyStr))
             description == OneLine(Get(article, "description", EmptyStr))
         IN  IF title.raised THEN title
             ELSE IF description.raised THEN description
             ELSE CsvArticleRows_ZeroBased(articles, i + 1,
                      output \o writerow(<<IntStr(i - 1), title.value, Get(article, "source", EmptyStr),
                                           Get(article, "author", EmptyStr),
                                           Get(article, "published_at", EmptyStr),
                                           description.value, Get(article, "url", EmptyStr)>>))

\* for i, article in enumerate(articles, 1): writer.writerow([...]); the
\* number i is written as str(i)
RECURSIVE CsvArticleRows(_, _, _)
CsvArticleRows(articles, i, output) ==
    IF i > Len(articles) THEN Return(output)
    ELSE LET article == articles[i]
             title == OneLine(Get(article, "title", EmptyStr))
             description == OneLine(Get(article, "description", EmptyStr))
         IN  IF title.raised THEN title
             ELSE IF description.raised THEN description
             ELSE CsvArticleRows(articles, i + 1,
                      output \o writerow(<<IntStr(i), title.value, Get(article, "source", EmptyStr),
                                           Get(article, "author", EmptyStr),
                                           Get(article, "published_at", EmptyStr),
                                           description.value, Get(article, "url", EmptyStr)>>))

CsvHeader ==
    <<Str(<<"Article_Number">>), Str(<<"Title">>), Str(<<"Source">>), Str(<<"Author">>),
      Str(<<"Published_Date">>), Str(<<"Description">>), Str(<<"URL">>)>>

NotAvailable == Str(<<"N/A">>)

\* create_csv_content: output.getvalue()
create_csv_content(articles, metadata) ==
    LET written == CsvArticleRows(articles, 1, writerow(CsvHeader))
        unique_sources == IF "unique_sources" \in DOMAIN metadata
                          THEN IntStr(metadata.unique_sources) ELSE NotAvailable
        date_range == Get(metadata, "date_range", EmptyDict)
        span_days == IF "span_days" \in DOMAIN date_range
                     THEN IntStr(date_range.span_days) ELSE NotAvailable
    IN  IF written.raised THEN written
        ELSE Return(Str(written.value
                        \o writerow(<< >>)
                        \o writerow(<<Str(<<"Summary Statistics">>)>>)
                        \o writerow(<<Str(<<"Total Articles">>), IntStr(Len(articles))>>)
                        \o writerow(<<Str(<<"Unique Sources">>), unique_sources>>)
                        \o writerow(<<Str(<<"Date Range (days)">>), span_days>>)))

(* ------------------------------ news cards ----------------------------- *)
\* display_news_card: the keys of the buttons it creates for one article
WidgetKeys(article_data) ==
    {Join(<<Str(<<prefix>>), IntStr(article_data.index)>>) :
        prefix \in {"copy_", "share_", "fav_"} \cup (IF Truthy(Get(article_data, "url", PyNone)) THEN {"read_"} ELSE {})}

\* display_news_card: description.split('. ') comes first, and None has no
\* .split; the card's value here is the set of button keys it creates
display_news_card(article_data, settings) ==
    LET description == Get(article_data, "description", Str(<<"No description available">>))
    IN  IF description = PyNone THEN Raise("AttributeError")
        ELSE Return(WidgetKeys(article_data))

\* for article in articles_to_show: display_news_card(article, config)
RECURSIVE DisplayFrom(_, _, _, _)
DisplayFrom(articles_to_show, settings, i, cards) ==
    IF i > Len(articles_to_show) THEN Return(cards)
    ELSE LET card == display_news_card(articles_to_show[i], settings)
         IN  IF card.raised THEN card
             ELSE DisplayFrom(articles_to_show, settings, i + 1, Append(cards, card.value))

(* ------------------------------ test data ------------------------------ *)
Stamp1 == Str(<<"2", "0", "2", "4", "-", "0", "2", "-", "2", "8", "T", "1", "0", ":", "0", "0", ":", "0", "0", "Z">>)
Stamp2 == Str(<<"2", "0", "2", "4", "-", "0", "3", "-", "0", "1", "T", "0", "8", ":", "3", "0", ":", "0", "0", "Z">>)
Stamp3 == Str(<<"2", "0", "2", "3", "-", "1", "2", "-", "3", "1", "T", "2", "3", ":", "5", "9", ":", "5", "9", "Z">>)
NotADate == Str(<<"n", "/", "a">>)

\* complete article
Art1 == [title |-> Str(<<"T1">>), description |-> Str(<<"D1">>),
         source |-> [id |-> PyNone, name |-> Str(<<"Reuters">>)],
         publishedAt |-> Stamp1, url |-> Str(<<"https://r.example/1">>)]
\* null title, no url
Art2 == [title |-> PyNone, description |-> Str(<<"D2">>),
         source |-> [id |-> PyNone, name |-> Str(<<"BBC">>)],
         publishedAt |-> Stamp2]
\* null description, source without a name
Art3 == [title |-> Str(<<"T3">>), description |-> PyNone, source |-> [id |-> PyNone],
         publishedAt |-> Stamp3, url |-> Str(<<"https://x.example/3">>)]
\* empty title and null description
Art4 == [title |-> EmptyStr, description |-> PyNone, source |-> [id |-> PyNone, name |-> EmptyStr],
         publishedAt |-> Stamp2]
\* neither title nor description nor source
Art5 == [url |-> Str(<<"https://x.example/5">>)]
\* empty description, null source name, empty publishedAt
Art6 == [title |-> Str(<<"T6">>), description |-> EmptyStr, source |-> [id |-> PyNone, name |-> PyNone],
         publishedAt |-> EmptyStr]
\* null source
Art7 == [title |-> Str(<<"T7">>), description |-> Str(<<"D7">>), source |-> PyNone, publishedAt |-> Stamp1]
\* null publishedAt
Art8 == [title |-> Str(<<"T8">>), description |-> Str(<<"D8">>),
         source |-> [id |-> PyNone, name |-> Str(<<"Reuters">>)],
         publishedAt |-> PyNone, url |-> Str(<<"https://r.example/8">>)]
\* publishedAt that is not a date, no description, no source
Art9 == [title |-> Str(<<"T9">>), publishedAt |-> NotADate]

\* line breaks, commas and quotes in the texts
Art10 == [title |-> Str(<<"T10", "\n", "continued">>),
          description |-> Str(<<"D10", ",", " more", "\r", "\n", "end">>),
          source |-> [id |-> PyNone, name |-> Str(<<"Dow", ",", " Jones">>)],
          author |-> Str(<<"A. ", "\"", "Al", "\"", " Writer">>),
          publishedAt |-> Stamp2, url |-> Str(<<"https://d.example/10">>)]

ArticlePool == {Art1, Art2, Art3, Art4, Art5, Art6, Art7, Art8, Art9, Art10}

ListsOf(S, n) == UNION {[1..k -> S] : k \in 0..n}

ArticleLists == ListsOf(ArticlePool, MaxArticles)

\* a longer answer of the search service: the list l, times times over
RECURSIVE Repeated(_, _)
Repeated(l, times) == IF times = 0 THEN << >> ELSE l \o Repeated(l, times - 1)

\* how often a list is repeated to get past the ten articles that are analysed
MaxRepeat == 4

\* what requests.get can do when the search service has the articles list l
NewsOutcomes(l) ==
    {HttpResponse(200, Str(<<"{..}">>), Return([status |-> Str(<<"ok">>), totalResults |-> Len(l), articles |-> l])),
     HttpResponse(200, Str(<<"{..}">>), Return([status |-> Str(<<"ok">>), totalResults |-> 0])),
     HttpResponse(401, Str(<<"{\"code\": \"apiKeyInvalid\"}">>), Return([status |-> Str(<<"error">>), code |-> Str(<<"apiKeyInvalid">>)])),
     HttpResponse(429, Str(<<"{\"code\": \"rateLimited\"}">>), Return([status |-> Str(<<"error">>), code |-> Str(<<"rateLimited">>)])),
     HttpRaises("Timeout"), HttpRaises("RequestException"), HttpRaises("Exception")}
    \cup {HttpResponse(200, Str(<<"<html>">>), j) : j \in NotJson}
    \cup {HttpResponse(502, Str(<<"<html>">>), j) : j \in NotJson}

CompletionTexts == {Str(<<"Outlook: ", "\n", "Bullish">>), Str(<<"Error", "s in guidance were corrected.">>)}

\* what requests.post can do
GroqOutcomes ==
    {HttpResponse(200, Str(<<"{..}">>), Return([id |-> Str(<<"c1">>), choices |-> <<[index |-> 0, message |-> [role |-> Str(<<"assistant">>), content |-> t]]>>])) :
        t \in CompletionTexts}
    \cup {HttpResponse(200, Str(<<"{..}">>), Return([id |-> Str(<<"c1">>), choices |-> << >>])),
          HttpResponse(200, Str(<<"{..}">>), Return([error |-> [message |-> Str(<<"overloaded">>)]])),
          HttpResponse(200, Str(<<"{..}">>), Return([choices |-> <<[index |-> 0, finish_reason |-> Str(<<"stop">>)]>>])),
          HttpResponse(401, Str(<<"{\"error\": ..}">>), Return([error |-> [message |-> Str(<<"Invalid API Key">>)]])),
          HttpRaises("Timeout"), HttpRaises("RequestException"), HttpRaises("Exception")}
    \cup {HttpResponse(200, Str(<<"<html>">>), j) : j \in NotJson}
    \cup {HttpResponse(503, Str(<<"<html>">>), j) : j \in NotJson}

\* st.sidebar sliders of render_sidebar_config
DaysBackChoices == {1, 30}
ModelChoices == {Str(<<"llama-3.1-8b-instant">>), Str(<<"gemma-7b-it">>)}

TypedQueries == {EmptyStr, Str(<<"nvidia">>)}
Summaries == {Str(<<"Outlook: ", "\n", "Bullish">>), Str(<<"Error", ": Request timed out. Please try again.">>)}

\* api_config.py is not part of the sources: a key is empty, too short or long enough
Key9 == Str(<<"g", "s", "k", "_", "1", "2", "3", "4", "5">>)
Key10 == Str(<<"g", "s", "k", "_", "1", "2", "3", "4", "5", "6">>)
KeyChoices == {EmptyStr, Key9, Key10}

(* ------------------------------- state --------------------------------- *)
VARIABLES
    research_history,   \* st.session_state.research_history
    current_analysis,   \* st.session_state.current_analysis
    selected_query,     \* st.session_state["selected_query"]; absent until first set
    query_input,        \* the text in the Research Query box
    config,             \* what render_sidebar_config returns
    http_log,           \* requests issued by the last script run, in order, with what came back
    messages,           \* st.error / st.warning / st.success of the last script run
    displayed,          \* the analysis display_research_results was given in the last run
    valid_articles,     \* valid_articles of the run that stored current_analysis
    event,              \* what started the last script run
    cleared,            \* history: Clear All has been pressed in this session
    fn_input,           \* function checks: the article list handed to the function
    fn_call             \* function checks: the call made and what it gave

vars == <<research_history, current_analysis, selected_query, query_input, config,
          http_log, messages, displayed, valid_articles, event, cleared, fn_input, fn_call>>

session_vars == <<research_history, current_analysis, selected_query, query_input, config,
                  http_log, messages, displayed, valid_articles, event, cleared>>

Absent == [py |-> "absent"]
NoCall == [fn |-> "none"]

\* initialize_app on a fresh session
SessionInit ==
    /\ research_history = << >>
    /\ current_analysis = PyNone
    /\ selected_query = Absent
    /\ query_input = EmptyStr
    /\ config \in [groq_api_key : KeyChoices, news_api_key : KeyChoices,
                   model_choice : {Str(<<"llama-3.1-8b-instant">>)}, days_back : {7}, max_articles : {15}]
    /\ http_log = << >>
    /\ messages = << >>
    /\ displayed = PyNone
    /\ valid_articles = << >>
    /\ event = "load"
    /\ cleared = FALSE

(* --------------------------- function checks --------------------------- *)
FnInit ==
    /\ research_history = << >>
    /\ current_analysis = PyNone
    /\ selected_query = Absent
    /\ query_input = EmptyStr
    /\ config = [groq_api_key |-> Key10, news_api_key |-> Key10,
                 model_choice |-> Str(<<"llama-3.1-8b-instant">>), days_back |-> 7, max_articles |-> 15]
    /\ http_log = << >>
    /\ messages = << >>
    /\ displayed = PyNone
    /\ valid_articles = << >>
    /\ event = "load"
    /\ cleared = FALSE
    /\ fn_input \in ArticleLists
    /\ fn_call = NoCall

Call_validate_articles ==
    /\ fn_call = NoCall
    /\ fn_call' = [fn |-> "validate_articles", out |-> validate_articles(fn_input)]
    /\ UNCHANGED <<session_vars, fn_input>>

Call_extract_article_metadata ==
    /\ fn_call = NoCall
    /\ fn_call' = [fn |-> "extract_article_metadata", out |-> extract_article_metadata(fn_input)]
    /\ UNCHANGED <<session_vars, fn_input>>

Call_formatted_articles ==
    /\ fn_call = NoCall
    /\ LET checked == validate_articles(fn_input)
       IN  /\ ~checked.raised
           /\ fn_call' = [fn |-> "formatted_articles", valid |-> checked.value[1],
                          out |-> formatted_articles(checked.value[1])]
    /\ UNCHANGED <<session_vars, fn_input>>

Call_prepare_content_for_analysis ==
    /\ fn_call = NoCall
    /\ \E max_articles \in 0..(MaxArticles + 1) :
          fn_call' = [fn |-> "prepare_content_for_analysis", max_articles |-> max_articles,
                      out |-> prepare_content_for_analysis(fn_input, max_articles)]
    /\ UNCHANGED <<session_vars, fn_input>>

Call_fetch_articles ==
    /\ fn_call = NoCall
    /\ \E net \in NewsOutcomes(fn_input), days_back \in DaysBackChoices :
          fn_call' = [fn |-> "fetch_articles", net |-> net,
                      out |-> fetch_articles(config.news_api_key, Str(<<"nvidia">>), days_back,
                                             config.max_articles, net)]
    /\ UNCHANGED <<session_vars, fn_input>>

Call_generate_summary ==
    /\ fn_call = NoCall
    /\ \E net \in GroqOutcomes, model \in ModelChoices :
          LET content == prepare_content_for_analysis(fn_input, 10)
          IN  /\ ~content.raised
              /\ fn_call' = [fn |-> "generate_summary", net |-> net,
                             out |-> generate_summary(config.groq_api_key, Str(<<"nvidia">>),
                                                      content.value, model, net)]
    /\ UNCHANGED <<session_vars, fn_input>>

Call_create_pdf_content ==
    /\ fn_call = NoCall
    /\ \E summary \in Summaries, query \in TypedQueries \ {EmptyStr} :
          LET checked == validate_articles(fn_input)
              articles == IF checked.raised THEN checked ELSE formatted_articles(checked.value[1])
              metadata == IF checked.raised THEN checked ELSE extract_article_metadata(checked.value[1])
          IN  /\ ~articles.raised
              /\ ~metadata.raised
              /\ fn_call' = [fn |-> "create_pdf_content", summary |-> summary, query |-> query,
                             metadata |-> metadata.value, articles |-> Slice(articles.value, 5),
                             out |-> create_pdf_content(summary, query, metadata.value,
                                                        Slice(articles.value, 5))]
    /\ UNCHANGED <<session_vars, fn_input>>

Call_create_csv_content ==
    /\ fn_call = NoCall
    /\ LET checked == validate_articles(fn_input)
           articles == IF checked.raised THEN checked ELSE formatted_articles(checked.value[1])
           metadata == IF checked.raised THEN checked ELSE extract_article_metadata(checked.value[1])
       IN  /\ ~articles.raised
           /\ ~metadata.raised
           /\ fn_call' = [fn |-> "create_csv_content", articles |-> articles.value,
                          metadata |-> metadata.value,
                          out |-> create_csv_content(articles.value, metadata.value)]
    /\ UNCHANGED <<session_vars, fn_input>>

Call_display_news_card ==
    /\ fn_call = NoCall
    /\ LET checked == validate_articles(fn_input)
           articles == IF checked.raised THEN checked ELSE formatted_articles(checked.value[1])
       IN  /\ ~articles.raised
           /\ fn_call' = [fn |-> "display_news_card", articles |-> articles.value,
                          out |-> DisplayFrom(articles.value, config, 1, << >>)]
    /\ UNCHANGED <<session_vars, fn_input>>

\* steps 2 and 3 of process_research_request on the articles of a response
Call_AnalysisContent ==
    /\ fn_call = NoCall
    /\ \E times \in 1..MaxRepeat :
          LET checked == validate_articles(Repeated(fn_input, times))
          IN  /\ ~checked.raised
              /\ fn_call' = [fn |-> "AnalysisContent", valid |-> checked.value[1],
                             out |-> AnalysisContent(checked.value[1])]
    /\ UNCHANGED <<session_vars, fn_input>>

FnNext ==
    \/ Call_validate_articles
    \/ Call_extract_article_metadata
    \/ Call_formatted_articles
    \/ Call_prepare_content_for_analysis
    \/ Call_fetch_articles
    \/ Call_generate_summary
    \/ Call_create_pdf_content
    \/ Call_create_csv_content
    \/ Call_display_news_card
    \/ Call_AnalysisContent

SpecFn == FnInit /\ [][FnNext]_vars

(* ------------------- claims on the article processor ------------------- *)
HasText(article, key) == key \in DOMAIN article /\ article[key] # PyNone /\ article[key] # EmptyStr

TitledOrDescribed(articles) == SelectSeq(articles, LAMBDA a : HasText(a, "title") \/ HasText(a, "description"))

\* C1: validate_articles returns, in their original order, exactly the input
\* articles that have a non-empty title or a non-empty description.
C1_ValidateKeepsTitledOrDescribed ==
    (fn_call.fn = "validate_articles" /\ ~fn_call.out.raised)
        => fn_call.out.value[1] = TitledOrDescribed(fn_input)

\* a call that kept two articles and dropped one with an empty title and a null description
C1_Witness ==
    /\ fn_call.fn = "validate_articles"
    /\ ~fn_call.out.raised
    /\ Len(fn_input) = 3
    /\ fn_input[2] = Art4
    /\ Len(fn_call.out.value[1]) = 2

RECURSIVE SumOver(_, _)
SumOver(f, keys) ==
    IF keys = {} THEN 0
    ELSE LET k == CHOOSE x \in keys : TRUE IN f[k] + SumOver(f, keys \ {k})

NoDuplicates(l) == \A i, j \in 1..Len(l) : i # j => l[i] # l[j]

\* C2: for a non-empty list extract_article_metadata returns a tally whose
\* counts sum to total_articles = len(articles), unique_sources is the number
\* of tally keys and the length of sources_list, and sources_list has no
\* duplicates; for an empty list it returns an empty dict.
C2_MetadataTallyConsistent ==
    (fn_call.fn = "extract_article_metadata" /\ ~fn_call.out.raised)
        => IF Len(fn_input) = 0 THEN fn_call.out.value = EmptyDict
           ELSE LET m == fn_call.out.value
                IN  /\ m.total_articles = Len(fn_input)
                    /\ SumOver(m.source_distribution, DOMAIN m.source_distribution) = m.total_articles
                    /\ m.unique_sources = Cardinality(DOMAIN m.source_distribution)
                    /\ m.unique_sources = Len(m.sources_list)
                    /\ NoDuplicates(m.sources_list)

\* three articles, two of them from the same source
C2_Witness ==
    /\ fn_call.fn = "extract_article_metadata"
    /\ ~fn_call.out.raised
    /\ Len(fn_input) = 3
    /\ fn_call.out.value.unique_sources = 2
    /\ \E s \in DOMAIN fn_call.out.value.source_distribution : fn_call.out.value.source_distribution[s] = 2

HasPublishedAt(article) == HasText(article, "publishedAt")

\* the publish days, as day numbers, of the articles that have a publishedAt
PublishDays(articles) ==
    {Strptime(StrSlice(articles[i].publishedAt, 10)).value : i \in {j \in 1..Len(articles) : HasPublishedAt(articles[j])}}

SetMin(S) == CHOOSE x \in S : \A y \in S : x <= y
SetMax(S) == CHOOSE x \in S : \A y \in S : x >= y

\* C3: date_range.earliest / latest are the minimum / maximum publish day over
\* the articles that have a publishedAt, earliest <= latest, span_days is the
\* non-negative number of days between them; with no publishedAt at all the
\* date_range is empty.
C3_DateRangeIsMinMaxSpan ==
    (fn_call.fn = "extract_article_metadata" /\ ~fn_call.out.raised /\ Len(fn_input) > 0)
        => LET range == fn_call.out.value.date_range
               days == PublishDays(fn_input)
           IN  IF days = {} THEN range = EmptyDict
               ELSE /\ Strptime(range.earliest).value = SetMin(days)
                    /\ Strptime(range.latest).value = SetMax(days)
                    /\ ~StrLess(range.latest, range.earliest)
                    /\ range.span_days = SetMax(days) - SetMin(days)
                    /\ range.span_days >= 0

\* the earliest day is not the first listed, one article has no publishedAt,
\* and the range crosses the end of February of a leap year
C3_Witness ==
    /\ fn_call.fn = "extract_article_metadata"
    /\ ~fn_call.out.raised
    /\ fn_input = <<Art2, Art6, Art1>>
    /\ fn_call.out.value.date_range.span_days = 2

(* ---------------------- claims on the HTTP clients --------------------- *)
ParsedOk(net) == net.kind = "response" /\ net.status_code = 200 /\ ~net.json.raised

\* C4: fetch_articles issues exactly one HTTP GET per call and never raises;
\* it returns the parsed JSON when the status is 200 (and the body parses),
\* and in every other case a dict with the key "error" holding a string.
C4_FetchOneGetNeverRaises ==
    fn_call.fn = "fetch_articles"
        => /\ Len(fn_call.out.sent) = 1
           /\ fn_call.out.sent[1].method = "GET"
           /\ ~fn_call.out.result.raised
           /\ IF ParsedOk(fn_call.net)
              THEN fn_call.out.result.value = fn_call.net.json.value
              ELSE /\ "error" \in DOMAIN fn_call.out.result.value
                   /\ DOMAIN fn_call.out.result.value.error = {"s"}
                   /\ fn_call.out.result.value.error # EmptyStr

\* a call whose request timed out
C4_Witness ==
    /\ fn_call.fn = "fetch_articles"
    /\ fn_call.net.kind = "Timeout"
    /\ "error" \in DOMAIN fn_call.out.result.value

StartsWithError(v) == DOMAIN v = {"s"} /\ Len(v.s) > 0 /\ v.s[1] = "Error"

WellFormedCompletion(net) ==
    /\ ParsedOk(net)
    /\ "choices" \in DOMAIN net.json.value
    /\ Len(net.json.value.choices) > 0
    /\ "message" \in DOMAIN net.json.value.choices[1]
    /\ "content" \in DOMAIN net.json.value.choices[1].message

\* C5: generate_summary issues at most one HTTP POST per call and never
\* raises; it returns the completion text when the status is 200 and the
\* response is well-formed, and in every other case a string that starts
\* with "Error".
C5_SummaryOnePostNeverRaises ==
    fn_call.fn = "generate_summary"
        => /\ Len(fn_call.out.sent) <= 1
           /\ \A i \in 1..Len(fn_call.out.sent) : fn_call.out.sent[i].method = "POST"
           /\ ~fn_call.out.result.raised
           /\ IF WellFormedCompletion(fn_call.net)
              THEN fn_call.out.result.value = fn_call.net.json.value.choices[1].message.content
              ELSE StartsWithError(fn_call.out.result.value)

\* a call answered with status 200 and an empty choices list
C5_Witness ==
    /\ fn_call.fn = "generate_summary"
    /\ ParsedOk(fn_call.net)
    /\ "choices" \in DOMAIN fn_call.net.json.value
    /\ Len(fn_call.net.json.value.choices) = 0
    /\ StartsWithError(fn_call.out.result.value)

(* ------------------------------ the session ---------------------------- *)
\* mutant: only the Groq key's length is looked at
validate_api_keys_GroqOnly(groq_key, news_key) ==
    LET errors == IF ~Truthy(groq_key) \/ Len(groq_key.s) < 10
                  THEN <<Str(<<"Invalid Groq API key format">>)>> ELSE << >>
    IN  <<Len(errors) = 0, errors>>

\* validate_api_keys: (keys_valid, errors); the keys are written one character per piece
validate_api_keys(groq_key, news_key) ==
    LET groq_errors == IF ~Truthy(groq_key) \/ Len(groq_key.s) < 10
                       THEN <<Str(<<"Invalid Groq API key format">>)>> ELSE << >>
        news_errors == IF ~Truthy(news_key) \/ Len(news_key.s) < 10
                       THEN <<Str(<<"Invalid NewsAPI key format">>)>> ELSE << >>
        errors == groq_errors \o news_errors
    IN  <<Len(errors) = 0, errors>>

\* display_error_message(error_type, details) with an error_type of ERROR_MESSAGES
ErrorMessage(error_type, details) == [level |-> "error", type |-> error_type, details |-> details]

\* display_success_message("articles_fetched", count)
SuccessMessage(count) == [level |-> "success", type |-> "articles_fetched", details |-> count]

\* st.warning of process_research_request
WarningMessage(count) == [level |-> "warning", type |-> "missing_information", details |-> count]

\* mutant: the except branch leaves the stored analysis in place
Failed_KeepsAnalysis(http, shown, exc, analysis, history) ==
    [http |-> http,
     messages |-> Append(shown, [level |-> "error", type |-> "general_error", details |-> Str(<<exc>>)]),
     current_analysis |-> analysis,
     research_history |-> history,
     valid_articles |-> << >>]

\* mutant: the failed request is entered in the history
Failed_RecordsHistory(http, shown, exc, analysis, history) ==
    [http |-> http,
     messages |-> Append(shown, [level |-> "error", type |-> "general_error", details |-> Str(<<exc>>)]),
     current_analysis |-> PyNone,
     research_history |-> Append(history, [query |-> EmptyStr, article_count |-> 0]),
     valid_articles |-> << >>]

\* the except branch of process_research_request; analysis is the stored
\* analysis, which the branch overwrites
Failed(http, shown, exc, analysis, history) ==
    [http |-> http,
     messages |-> Append(shown, ErrorMessage("general_error", Str(<<exc>>))),
     current_analysis |-> PyNone,
     research_history |-> history,
     valid_articles |-> << >>]

\* mutant: the early return drops the stored analysis
Stopped_DropsAnalysis(http, shown, analysis, history, valid_list) ==
    [http |-> http, messages |-> shown, current_analysis |-> PyNone,
     research_history |-> history, valid_articles |-> << >>]

\* a return of process_research_request that stores nothing
Stopped(http, shown, analysis, history, valid_list) ==
    [http |-> http, messages |-> shown, current_analysis |-> analysis,
     research_history |-> history, valid_articles |-> valid_list]

\* the requests a client call issued, each with what the call returned
Exchanges(called) == [i \in 1..Len(called.sent) |-> [sent |-> called.sent[i], returned |-> called.result]]

\* process_research_request; news and groq are what the two services do when
\* asked.  The result is the requests issued, the messages shown and the
\* session state left behind (timestamps are left out).
process_research_request(query, cfg, analysis, history, valid_list, news, groq) ==
    LET fetched == fetch_articles(cfg.news_api_key, query, cfg.days_back, cfg.max_articles, news)
        news_data == fetched.result.value
        searched == Exchanges(fetched)
    IN  IF "error" \in DOMAIN news_data
        THEN Stopped(searched, <<ErrorMessage("api_error", news_data.error)>>, analysis, history, valid_list)
        ELSE
        LET articles == Get(news_data, "articles", << >>)
        IN  IF Len(articles) = 0
            THEN Stopped(searched, <<ErrorMessage("no_articles", EmptyStr)>>, analysis, history, valid_list)
            ELSE
            LET checked == validate_articles(articles)
            IN  IF checked.raised THEN Failed(searched, << >>, checked.exc, analysis, history)
                ELSE
                LET valid == checked.value[1]
                    warnings == checked.value[2]
                    shown == IF Len(warnings) > 0 THEN <<WarningMessage(IntStr(Len(warnings)))>> ELSE << >>
                    news_content == AnalysisContent(valid)
                IN  IF news_content.raised THEN Failed(searched, shown, news_content.exc, analysis, history)
                    ELSE
                    LET summarised == generate_summary(cfg.groq_api_key, query, news_content.value,
                                                       cfg.model_choice, groq)
                        http == searched \o Exchanges(summarised)
                        metadata == extract_article_metadata(valid)
                        formatted == formatted_articles(valid)
                    IN  IF summarised.result.raised THEN Failed(http, shown, summarised.result.exc, analysis, history)
                        ELSE IF metadata.raised THEN Failed(http, shown, metadata.exc, analysis, history)
                        ELSE IF formatted.raised THEN Failed(http, shown, formatted.exc, analysis, history)
                        ELSE [http |-> http,
                              messages |-> Append(shown, SuccessMessage(IntStr(Len(valid)))),
                              current_analysis |-> [query |-> query,
                                                    summary |-> summarised.result.value,
                                                    articles |-> formatted.value,
                                                    metadata |-> metadata.value,
                                                    config |-> cfg],
                              research_history |-> Append(history, [query |-> query,
                                                                    article_count |-> Len(valid)]),
                              valid_articles |-> valid]

\* mutant: the typed text wins over a stored empty selected_query
final_query_TypedWhenEmpty ==
    IF selected_query = Absent \/ selected_query = EmptyStr THEN query_input ELSE selected_query

\* render_search_interface: the query it returns
final_query == IF selected_query = Absent THEN query_input ELSE selected_query

\* main, lines 84-86: the analysis handed to display_research_results, if any
Shown(analysis) == IF Truthy(analysis) THEN analysis ELSE PyNone

\* A keyless st.text_input is a new widget, holding its value argument, when
\* that argument changes; otherwise it keeps what was typed.
InputAfter(new_selected) ==
    LET old_value == IF selected_query = Absent THEN EmptyStr ELSE selected_query
    IN  IF new_selected = old_value THEN query_input ELSE new_selected

\* the three Quick Suggestions buttons
Suggestions == {Str(<<"Tesla stock price analysis">>), Str(<<"Apple quarterly earnings report">>),
                Str(<<"cryptocurrency market trends">>)}

\* the article lists the search service answers with in the session model
ServiceArticles == {<<Art5>>, <<Art3, Art1>>, <<Art1, Art8>>, <<Art9>>}

SessionNewsOutcomes ==
    {HttpResponse(200, Str(<<"{..}">>), Return([status |-> Str(<<"ok">>), totalResults |-> Len(l), articles |-> l])) :
        l \in ServiceArticles \cup {<< >>}}
    \cup {HttpResponse(200, Str(<<"{..}">>), Return([status |-> Str(<<"ok">>), totalResults |-> 0])),
          HttpResponse(401, Str(<<"{\"code\": \"apiKeyInvalid\"}">>),
                       Return([status |-> Str(<<"error">>), code |-> Str(<<"apiKeyInvalid">>)])),
          HttpRaises("Timeout")}

SessionGroqOutcomes ==
    {HttpResponse(200, Str(<<"{..}">>),
         Return([id |-> Str(<<"c1">>),
                 choices |-> <<[index |-> 0, message |-> [role |-> Str(<<"assistant">>),
                                                          content |-> Str(<<"Outlook: ", "\n", "Bullish">>)]]>>])),
     HttpRaises("Timeout")}

Init ==
    /\ SessionInit
    /\ fn_input = << >>
    /\ fn_call = NoCall

\* The user edits the Research Query box (or touches any other widget that
\* is not a button of the search interface): one script run, no button set.
TypeQuery ==
    /\ \E text \in TypedQueries : query_input' = text
    /\ event' = "type"
    /\ http_log' = << >>
    /\ messages' = << >>
    /\ displayed' = Shown(current_analysis)
    /\ UNCHANGED <<research_history, current_analysis, selected_query, config, valid_articles,
                   cleared, fn_input, fn_call>>

\* A Quick Suggestions button: render_search_interface stores the query and
\* calls st.rerun(), which ends this script run there and starts another one
\* in which no button is set.
PressSuggestion ==
    /\ \E suggestion \in Suggestions :
          /\ selected_query' = suggestion
          /\ query_input' = InputAfter(suggestion)
    /\ event' = "suggest"
    /\ http_log' = << >>
    /\ messages' = << >>
    /\ displayed' = Shown(current_analysis)
    /\ UNCHANGED <<research_history, current_analysis, config, valid_articles, cleared, fn_input, fn_call>>

\* Clear All: render_search_interface stores "" and calls st.rerun(), which
\* ends this script run inside render_search_interface; lines 55-57 of main
\* are not reached, and in the run that follows clear_btn is False.
PressClearAll ==
    /\ selected_query' = EmptyStr
    /\ query_input' = InputAfter(EmptyStr)
    /\ event' = "clear"
    /\ cleared' = TRUE
    /\ http_log' = << >>
    /\ messages' = << >>
    /\ displayed' = Shown(current_analysis)
    /\ UNCHANGED <<research_history, current_analysis, config, valid_articles, fn_input, fn_call>>

\* what main does with search_btn set, up to the call of process_research_request
Rejected(error_messages) ==
    /\ http_log' = << >>
    /\ messages' = error_messages
    /\ displayed' = PyNone
    /\ UNCHANGED <<research_history, current_analysis, valid_articles>>

\* Start Research: one script run of main with search_btn set
PressStartResearch ==
    /\ Len(research_history) < MaxHistory
    /\ event' = "search"
    /\ UNCHANGED <<selected_query, query_input, config, cleared, fn_input, fn_call>>
    /\ IF ~Truthy(config.groq_api_key) THEN Rejected(<<ErrorMessage("no_groq_key", EmptyStr)>>)
       ELSE IF ~Truthy(config.news_api_key) THEN Rejected(<<ErrorMessage("no_news_key", EmptyStr)>>)
       ELSE IF ~Truthy(final_query) THEN Rejected(<<ErrorMessage("no_query", EmptyStr)>>)
       ELSE LET keys == validate_api_keys(config.groq_api_key, config.news_api_key)
            IN  IF ~keys[1]
                THEN Rejected([i \in 1..Len(keys[2]) |-> ErrorMessage("key_format", keys[2][i])])
                ELSE \E done \in {process_research_request(final_query, config, current_analysis,
                                        research_history, valid_articles, news, groq) :
                                    news \in SessionNewsOutcomes, groq \in SessionGroqOutcomes} :
                            /\ http_log' = done.http
                            /\ messages' = done.messages
                            /\ current_analysis' = done.current_analysis
                            /\ research_history' = done.research_history
                            /\ valid_articles' = done.valid_articles
                            /\ displayed' = Shown(done.current_analysis)

Next ==
    \/ TypeQuery
    \/ PressSuggestion
    \/ PressClearAll
    \/ PressStartResearch

Spec == Init /\ [][Next]_vars



(* ------------------------ claims on the session ------------------------ *)
Requests(method) == {i \in 1..Len(http_log) : http_log[i].sent.method = method}

SearchFailed(returned) == returned.raised \/ "error" \in DOMAIN returned.value

SearchFoundArticles(returned) ==
    /\ ~SearchFailed(returned)
    /\ "articles" \in DOMAIN returned.value
    /\ Len(returned.value.articles) >= 1

\* C6: a press of Start Research causes at most one news-search request,
\* followed by at most one chat-completion request, neither retried; the
\* completion request is issued only after the search returned without an
\* "error" key and with at least one article; a failed search ends the
\* request without a completion request.
C6_OneSearchThenOneCompletion ==
    /\ Cardinality(Requests("GET")) <= 1
    /\ Cardinality(Requests("POST")) <= 1
    /\ Cardinality(Requests("GET")) + Cardinality(Requests("POST")) = Len(http_log)
    /\ \A p \in Requests("POST") :
          \E g \in Requests("GET") : g < p /\ SearchFoundArticles(http_log[g].returned)
    /\ \A g \in Requests("GET") :
          SearchFailed(http_log[g].returned) => Requests("POST") = {}
    /\ event # "search" => http_log = << >>

\* a run that issued the search and then the completion request
C6_Witness ==
    /\ event = "search"
    /\ Len(http_log) = 2
    /\ http_log[1].sent.method = "GET"
    /\ http_log[2].sent.method = "POST"

\* some step of process_research_request raises on these articles
StepRaises(articles) ==
    LET checked == validate_articles(articles)
    IN  \/ checked.raised
        \/ prepare_content_for_analysis(checked.value[1], Min2(10, Len(checked.value[1]))).raised
        \/ extract_article_metadata(checked.value[1]).raised
        \/ formatted_articles(checked.value[1]).raised

HasMessage(type) == \E i \in 1..Len(messages) : messages[i].type = type

\* C7: if a step of process_research_request raises, the exception is caught,
\* the general error message is shown and current_analysis is None
\* afterwards, so the run displays no results, new or previous.
C7_ExceptionClearsAnalysis ==
    (event = "search" /\ Len(http_log) >= 1 /\ SearchFoundArticles(http_log[1].returned)
        /\ StepRaises(http_log[1].returned.value.articles))
        => /\ HasMessage("general_error")
           /\ current_analysis = PyNone
           /\ displayed = PyNone

\* a run that raised after its completion request, in a session that had stored an analysis before
C7_Witness ==
    /\ event = "search"
    /\ Len(http_log) = 2
    /\ StepRaises(http_log[1].returned.value.articles)
    /\ Len(research_history) >= 1
    /\ HasMessage("general_error")

\* C8: after the user presses Clear All, current_analysis is None, so the
\* page displays no research results.
C8_ClearAllClearsAnalysis ==
    event = "clear" => (current_analysis = PyNone /\ displayed = PyNone)

AllKeys(articles) == UNION {WidgetKeys(articles[i]) : i \in 1..Len(articles)}

RECURSIVE KeyCount(_)
KeyCount(articles) ==
    IF Len(articles) = 0 THEN 0 ELSE Cardinality(WidgetKeys(Head(articles))) + KeyCount(Tail(articles))

\* C10: the display records stored in current_analysis['articles'] are the
\* valid articles in order, each reshaped by format_article_for_display with
\* index equal to its 0-based position; the indexes are exactly 0..n-1 and
\* the widget keys read_i, copy_i, share_i, fav_i are pairwise distinct.
C10_DisplayRecordsIndexedInOrder ==
    current_analysis # PyNone
        => LET shown == current_analysis.articles
           IN  /\ Len(shown) = Len(valid_articles)
               /\ \A i \in 1..Len(shown) :
                     /\ shown[i] = format_article_for_display(valid_articles[i], i - 1).value
                     /\ shown[i].index = i - 1
               /\ {shown[i].index : i \in 1..Len(shown)} = 0..(Len(shown) - 1)
               /\ Cardinality(AllKeys(shown)) = KeyCount(shown)
               /\ (HasMessage("articles_fetched")
                      => valid_articles = TitledOrDescribed(http_log[1].returned.value.articles))

\* an analysis of two articles, stored by a run whose search returned them in this order
C10_Witness ==
    /\ current_analysis # PyNone
    /\ HasMessage("articles_fetched")
    /\ http_log[1].returned.value.articles = <<Art3, Art1>>
    /\ Len(current_analysis.articles) = 2
    /\ current_analysis.articles[2].title = Str(<<"T1">>)

(* --------------------- claims on the export builders ------------------- *)
\* text occurs in document
Contains(document, text) ==
    \E i \in 0..(Len(document.s) - Len(text.s)) : SubSeq(document.s, i + 1, i + Len(text.s)) = text.s

Occurrences(document, piece) == Cardinality({i \in 1..Len(document.s) : document.s[i] = piece})

\* str.replace('\n', '<br>')
WithBreaks(text) == Replace(text, "\n", "<br>")

\* C9: the document create_pdf_content returns contains the given query, the
\* given summary with newlines rendered as <br>, the metadata counts and one
\* article block per article passed to it.
C9_HtmlExportShowsInputs ==
    fn_call.fn = "create_pdf_content"
        => /\ Contains(fn_call.out, fn_call.query)
           /\ Contains(fn_call.out, WithBreaks(fn_call.summary))
           /\ ("total_articles" \in DOMAIN fn_call.metadata
                  => /\ Contains(fn_call.out, IntStr(fn_call.metadata.total_articles))
                     /\ Contains(fn_call.out, IntStr(fn_call.metadata.unique_sources)))
           /\ Occurrences(fn_call.out, "<div class=\"article\">") = Len(fn_call.articles)


\* a create_pdf_content call with two articles and a summary of two lines
C9_Reached ==
    /\ fn_call.fn = "create_pdf_content"
    /\ Len(fn_call.articles) = 2
    /\ fn_call.summary = Str(<<"Outlook: ", "\n", "Bullish">>)


\* Clear All pressed while an analysis is stored
C8_Reached ==
    /\ event = "clear"
    /\ current_analysis # PyNone
    /\ Len(research_history) >= 1


(* ------------------------ claims on the CSV export --------------------- *)
\* The records a CSV reader finds in the written text: a record ends at a
\* line terminator outside quotes, a field at a comma outside quotes, and
\* a doubled quote inside quotes is one quote.  A line with nothing on it
\* is a record without fields.
Outside(p, i) == Cardinality({j \in 1..(i - 1) : p[j] = "\""}) % 2 = 0

Breaks(p, sep, lo, hi) == {i \in lo..hi : p[i] = sep /\ Outside(p, i)}

Nth(S, k) == CHOOSE i \in S : Cardinality({j \in S : j < i}) = k - 1

\* the spans <<from, to>> of p[lo..hi] between the separators outside quotes
Spans(p, sep, lo, hi) ==
    LET B == Breaks(p, sep, lo, hi)
        n == Cardinality(B)
    IN  [k \in 1..(n + 1) |-> <<IF k = 1 THEN lo ELSE Nth(B, k - 1) + 1,
                                IF k = n + 1 THEN hi ELSE Nth(B, k) - 1>>]

RECURSIVE Undouble(_)
Undouble(f) ==
    IF Len(f) = 0 THEN << >>
    ELSE IF Len(f) >= 2 /\ f[1] = "\"" /\ f[2] = "\"" THEN <<"\"">> \o Undouble(SubSeq(f, 3, Len(f)))
    ELSE <<Head(f)>> \o Undouble(Tail(f))

Unquote(f) ==
    IF Len(f) >= 2 /\ f[1] = "\"" THEN Str(Undouble(SubSeq(f, 2, Len(f) - 1))) ELSE Str(f)

CsvFieldsOf(p, lo, hi) ==
    IF lo > hi THEN << >>
    ELSE LET spans == Spans(p, ",", lo, hi)
         IN  [k \in 1..Len(spans) |-> Unquote(SubSeq(p, spans[k][1], spans[k][2]))]

CsvRecords(text) ==
    LET p == text.s
        spans == Spans(p, "\r\n", 1, Len(p))
        last == spans[Len(spans)]
        n == IF last[1] > last[2] THEN Len(spans) - 1 ELSE Len(spans)
    IN  [k \in 1..n |-> CsvFieldsOf(p, spans[k][1], spans[k][2])]

\* the text a reader gets back for a written value: None reads as the empty text
ReadBack(v) == IF v = PyNone THEN EmptyStr ELSE v

\* C11: the CSV export is one header row, then one row per article numbered
\* 1..n in list order, then a blank row and the summary rows, with the
\* 'Total Articles' value equal to n, the number of article rows.
C11_CsvRowsPerArticle ==
    (fn_call.fn = "create_csv_content" /\ ~fn_call.out.raised) =>
        LET rows == CsvRecords(fn_call.out.value)
            articles == fn_call.articles
            n == Len(articles)
        IN  /\ Len(rows) = n + 6
            /\ rows[1] = CsvHeader
            /\ \A i \in 1..n :
                  /\ Len(rows[i + 1]) = 7
                  /\ rows[i + 1][1] = IntStr(i)
                  /\ rows[i + 1][3] = ReadBack(articles[i].source)
                  /\ rows[i + 1][4] = ReadBack(articles[i].author)
                  /\ rows[i + 1][7] = ReadBack(articles[i].url)
            /\ rows[n + 2] = << >>
            /\ rows[n + 3] = <<Str(<<"Summary Statistics">>)>>
            /\ rows[n + 4] = <<Str(<<"Total Articles">>), IntStr(n)>>
            /\ Len(rows[n + 5]) = 2 /\ rows[n + 5][1] = Str(<<"Unique Sources">>)
            /\ Len(rows[n + 6]) = 2 /\ rows[n + 6][1] = Str(<<"Date Range (days)">>)

\* an export of three articles, one of them with line breaks, commas and quotes
C11_Witness ==
    /\ fn_call.fn = "create_csv_content"
    /\ ~fn_call.out.raised
    /\ fn_input = <<Art1, Art10, Art6>>
    /\ Len(CsvRecords(fn_call.out.value)) = 9


(* ---------------------- claims on the validations ---------------------- *)
\* the first check of main, lines 60-79, that fails, or "none"
FirstFailingCheck ==
    IF config.groq_api_key = EmptyStr THEN "no_groq_key"
    ELSE IF config.news_api_key = EmptyStr THEN "no_news_key"
    ELSE IF final_query = EmptyStr THEN "no_query"
    ELSE IF Len(config.groq_api_key.s) < 10 \/ Len(config.news_api_key.s) < 10 THEN "key_format"
    ELSE "none"

C12_Step ==
    /\ http_log' # << >> => (event' = "search" /\ FirstFailingCheck = "none")
    /\ (event' = "search" /\ FirstFailingCheck # "none") =>
          /\ http_log' = << >>
          /\ Len(messages') >= 1
          /\ \A i \in 1..Len(messages') :
                messages'[i].level = "error" /\ messages'[i].type = FirstFailingCheck
          /\ current_analysis' = current_analysis
          /\ research_history' = research_history

\* C12: HTTP requests are issued only by a Start Research run in which both
\* keys and the query are non-empty and both keys have at least 10
\* characters; the checks run in that order, and the first failing one shows
\* its error and ends the run with current_analysis and research_history
\* as they were.
C12_RequestsOnlyAfterValidation == [][C12_Step]_vars

\* a search rejected for its empty query while an analysis is stored
C12_Witness ==
    /\ event = "search"
    /\ messages = <<ErrorMessage("no_query", EmptyStr)>>
    /\ current_analysis # PyNone
    /\ Len(research_history) = 1


(* ------------------ claims on a search without results ----------------- *)
C13_Step ==
    (event' = "search" /\ Len(http_log') >= 1 /\ ~SearchFoundArticles(http_log'[1].returned)) =>
        /\ current_analysis' = current_analysis
        /\ research_history' = research_history
        /\ Len(messages') = 1
        /\ messages'[1].level = "error"
        /\ messages'[1].type = (IF SearchFailed(http_log'[1].returned) THEN "api_error" ELSE "no_articles")
        /\ displayed' = (IF current_analysis = PyNone THEN PyNone ELSE current_analysis)

\* C13: when the search returns an error or no articles, current_analysis
\* and research_history stay as they were, and an analysis stored earlier
\* is displayed in the same run, after the error for the new query.
C13_FailedSearchKeepsAnalysis == [][C13_Step]_vars

\* a failed search with an earlier analysis still stored and on display
C13_Witness ==
    /\ event = "search"
    /\ Len(http_log) = 1
    /\ SearchFailed(http_log[1].returned)
    /\ HasMessage("api_error")
    /\ current_analysis # PyNone
    /\ displayed = current_analysis


(* --------------------- claims on the stored analysis ------------------- *)
\* C14: whenever an analysis is stored, metadata['total_articles'] equals
\* the number of stored display articles, which equals the article_count of
\* the research_history entry of the same run and is at least 1.
C14_StoredCountsAgree ==
    current_analysis # PyNone =>
        /\ "total_articles" \in DOMAIN current_analysis.metadata
        /\ current_analysis.metadata.total_articles = Len(current_analysis.articles)
        /\ Len(research_history) >= 1
        /\ research_history[Len(research_history)].article_count = Len(current_analysis.articles)
        /\ Len(current_analysis.articles) >= 1

\* an analysis stored by a run whose search returned only articles without
\* title and description
C14_Reached ==
    /\ event = "search"
    /\ current_analysis # PyNone
    /\ Len(http_log) = 2
    /\ http_log[1].returned.value.articles = <<Art5>>
    /\ HasMessage("articles_fetched")


(* ---------------------- claims on research_history --------------------- *)
\* the step is a research request that stored a new analysis
StoresAnalysis ==
    /\ event' = "search"
    /\ \E i \in 1..Len(messages') : messages'[i].type = "articles_fetched"
    /\ current_analysis' # PyNone

C15_Step ==
    /\ Len(research_history') >= Len(research_history)
    /\ SubSeq(research_history', 1, Len(research_history)) = research_history
    /\ StoresAnalysis =>
          /\ Len(research_history') = Len(research_history) + 1
          /\ research_history'[Len(research_history')].query = current_analysis'.query
    /\ ~StoresAnalysis => research_history' = research_history

\* C15: research_history grows by exactly one entry for each research
\* request that stores a new analysis and by none for a request that ends in
\* a validation error, a search error, no articles or an exception; no
\* operation, Clear All included, removes or reorders its entries.
C15_HistoryGrowsByStoredRequests == [][C15_Step]_vars

\* Clear All after two stored requests: both entries are still there
C15_Witness ==
    /\ event = "clear"
    /\ Len(research_history) = 2
    /\ research_history[1].article_count = 2
    /\ research_history[2].article_count = 0


(* ------------------- claims on a failed completion --------------------- *)
\* the last run issued the completion request and the request failed
CompletionFailed ==
    /\ event = "search"
    /\ Len(http_log) = 2
    /\ http_log[2].sent.method = "POST"
    /\ (http_log[2].returned.raised \/ StartsWithError(http_log[2].returned.value))

\* C16: a failure of the chat-completion call does not abort the research
\* request: the returned "Error..." text is stored as the summary of
\* current_analysis, a research_history entry is appended and the success
\* message is shown, as for a successful completion.
C16_FailedCompletionIsStored ==
    (CompletionFailed /\ ~StepRaises(http_log[1].returned.value.articles)) =>
        /\ ~http_log[2].returned.raised
        /\ current_analysis # PyNone
        /\ current_analysis.summary = http_log[2].returned.value
        /\ StartsWithError(current_analysis.summary)
        /\ current_analysis.articles = formatted_articles(valid_articles).value
        /\ Len(research_history) >= 1
        /\ research_history[Len(research_history)] =
              [query |-> current_analysis.query, article_count |-> Len(valid_articles)]
        /\ HasMessage("articles_fetched")
        /\ ~HasMessage("general_error")
        /\ displayed = current_analysis

\* a run with two articles whose completion request timed out
C16_Witness ==
    /\ CompletionFailed
    /\ current_analysis # PyNone
    /\ Len(current_analysis.articles) = 2
    /\ current_analysis.summary = Str(<<"Error", ": Request timed out. Please try again.">>)


(* --------------------- claims on accepted articles --------------------- *)
\* C17: every article accepted by validate_articles is processed to the end
\* without an exception: it can be formatted for display, rendered as a
\* news card and written by the CSV export.
C17_AcceptedArticlesAreProcessed ==
    /\ fn_call.fn = "formatted_articles" => ~fn_call.out.raised
    /\ fn_call.fn = "display_news_card" => ~fn_call.out.raised
    /\ fn_call.fn = "create_csv_content" => ~fn_call.out.raised

\* the news card of an accepted article with a title and a null description
C17_Reached ==
    /\ fn_call.fn = "display_news_card"
    /\ fn_input = <<Art3>>
    /\ Len(fn_call.articles) = 1
    /\ fn_call.articles[1].description = PyNone


(* ----------------------- the News Articles tab ------------------------- *)
AllSources == Str(<<"All Sources">>)

\* display_research_results: the options of the 'Filter by source' selectbox
SourceOptions(analysis_data) ==
    <<AllSources>> \o Get(analysis_data.metadata, "sources_list", << >>)

\* display_research_results: filtered_articles for the selected option
FilteredArticles(analysis_data, filter_source) ==
    IF filter_source = AllSources THEN analysis_data.articles
    ELSE SelectSeq(analysis_data.articles, LAMBDA article : article.source = filter_source)

\* C18: every entry of the 'Filter by source' list is the source of at least
\* one stored display article, so selecting any listed source gives a
\* non-empty list of articles; this includes articles without a source name.
C18_ListedSourcesHaveArticles ==
    (current_analysis # PyNone /\ Len(current_analysis.articles) >= 1) =>
        \A k \in 1..Len(SourceOptions(current_analysis)) :
            Len(FilteredArticles(current_analysis, SourceOptions(current_analysis)[k])) >= 1

\* a stored analysis of two articles, one of them from a source without a name
C18_Reached ==
    /\ current_analysis # PyNone
    /\ valid_articles = <<Art3, Art1>>
    /\ Len(SourceOptions(current_analysis)) = 3
    /\ displayed = current_analysis


(* ---------------------- claims on selected_query ----------------------- *)
KeysPresent == config.groq_api_key # EmptyStr /\ config.news_api_key # EmptyStr

\* the query of the search request a run issued
SentQuery(log) == log[1].sent.params.q

C19_Step ==
    /\ selected_query # Absent => selected_query' # Absent
    /\ (selected_query = EmptyStr /\ event' # "suggest") => selected_query' = EmptyStr
    /\ (event' = "search" /\ http_log' # << >>) =>
          SentQuery(http_log') = (IF selected_query = Absent THEN query_input ELSE selected_query)
    /\ (event' = "search" /\ selected_query = EmptyStr /\ KeysPresent) =>
          /\ messages' = <<ErrorMessage("no_query", EmptyStr)>>
          /\ http_log' = << >>

\* C19 (amended): the query of a research request is the typed text only
\* while selected_query is absent; once set, selected_query is never removed
\* and every later Start Research uses it whatever is typed.  After Clear
\* All it is the empty string until a quick suggestion is pressed, and until
\* then every Start Research with both keys present is rejected with the
\* no-query error.
C19_StoredQueryWins == [][C19_Step]_vars

\* a search rejected for its query after Clear All although text is typed
C19_Witness ==
    /\ event = "search"
    /\ cleared
    /\ selected_query = EmptyStr
    /\ query_input = Str(<<"nvidia">>)
    /\ messages = <<ErrorMessage("no_query", EmptyStr)>>

\* C19 as stated: once Clear All has been pressed, every later Start
\* Research (with both keys present) is rejected with the no-query error.
C19_EverySearchAfterClearRejected ==
    (cleared /\ event = "search" /\ KeysPresent) => HasMessage("no_query")


(* -------------------- claims on the analysed content ------------------- *)
BlockEnd == " --- "

\* the blocks of a prepared text: block k runs up to the k-th block end
BlockEnds(p) == {i \in 1..Len(p) : p[i] = BlockEnd}

BlockOf(p, k) ==
    LET from == IF k = 1 THEN 1 ELSE Nth(BlockEnds(p), k - 1) + 1
    IN  SubSeq(p, from, Nth(BlockEnds(p), k))

StartsWith(p, prefix) == Len(p) >= Len(prefix) /\ SubSeq(p, 1, Len(prefix)) = prefix

\* C20: the text for the chat completion is built from at most 10
\* articles: one block per article for the first min(10, number of valid
\* articles) valid articles, in order, numbered 1..k, and nothing for the
\* remaining articles.
C20_AtMostTenArticlesAnalysed ==
    (fn_call.fn = "AnalysisContent" /\ ~fn_call.out.raised) =>
        LET p == fn_call.out.value.s
            valid == fn_call.valid
            k == IF Len(valid) < 10 THEN Len(valid) ELSE 10
        IN  /\ Cardinality(BlockEnds(p)) = k
            /\ k > 0 => p[Len(p)] = BlockEnd
            /\ k = 0 => p = << >>
            /\ \A i \in 1..k :
                  StartsWith(BlockOf(p, i),
                             <<"Article ">> \o IntStr(i).s \o <<": Title: ">>
                             \o PyStr(Get(valid[i], "title", Str(<<"No title">>))).s
                             \o <<" Description: ">>
                             \o PyStr(Get(valid[i], "description", Str(<<"No description">>))).s)

\* twelve valid articles, of which ten are analysed
C20_Witness ==
    /\ fn_call.fn = "AnalysisContent"
    /\ ~fn_call.out.raised
    /\ Len(fn_call.valid) = 12
    /\ Cardinality(BlockEnds(fn_call.out.value.s)) = 10

====
